---- MODULE Spec2Model ----
(***************************************************************************)
(* Model of the aitrade trading bot: the polling loop of TradingBot.run,   *)
(* the signal generation of SignalGenerator.get_ai_signal, the risk gate   *)
(* of RiskManager and the order path of TradeExecutor.                     *)
(*                                                                         *)
(* Number representation (exact, no floating point):                       *)
(*   confidence         hundredths      (0.7  -> 70)                       *)
(*   *_pct              basis points    (0.05 -> 500)                      *)
(*   rsi                points 0..100                                      *)
(*   vol10              basis points of stdev/mean of the last 10 closes   *)
(*   ann_vol            hundredths of the annualised volatility            *)
(*   stop_loss          price * PctScale (entry 100, pct 500 -> 950000)    *)
(*   amounts            normalised fractions <<numerator, denominator>>    *)
(***************************************************************************)
EXTENDS Integers, Sequences, FiniteSets, TLC

VARIABLES pc, cycle, data, advisory, signal, position, trade_log, orders, cyc,
          calc

vars == <<pc, cycle, data, advisory, signal, position, trade_log, orders, cyc,
          calc>>

(***************************************************************************)
(* Bounds of the model.                                                    *)
(***************************************************************************)
MaxCycles == 3

(***************************************************************************)
(* Scales and program constants.                                           *)
(***************************************************************************)
PctScale == 100 * 100
ConfidenceGate == 70
VolatilityLimit == 500
RsiBuyLimit == 80
RsiSellLimit == 20
RiskPerTrade == 200
MaxPositionPct == 1000
MinBalance == 10
DefaultStopLossPct == 500
MinCloses == 20
HighVolatility == 80
MediumVolatility == 40
RsiOversold == 30
RsiOverbought == 70

None == [kind |-> "none"]

(***************************************************************************)
(* Fractions.                                                              *)
(***************************************************************************)
Abs(x) == IF x < 0 THEN -x ELSE x

RECURSIVE GCD(_, _)
GCD(a, b) == IF b = 0 THEN a ELSE GCD(b, a % b)

\* n / d with d # 0, normalised: positive denominator, lowest terms
Frac(n, d) ==
    LET g == GCD(Abs(n), Abs(d))
        s == IF d < 0 THEN -1 ELSE 1
    IN  <<(s * n) \div g, (s * d) \div g>>

FracLess(x, y) == x[1] * y[2] < y[1] * x[2]
FracMin(x, y) == IF FracLess(y, x) THEN y ELSE x
FracMax(x, y) == IF FracLess(x, y) THEN y ELSE x
FracPos(x) == x[1] > 0

(***************************************************************************)
(* Optional / loosely typed record fields of a signal dict.                *)
(***************************************************************************)
Num(v) == [kind |-> "num", val |-> v]
Missing == [kind |-> "missing", val |-> 0]
NonNum == [kind |-> "nonnum", val |-> 0]

(***************************************************************************)
(* Inputs.  A snapshot carries the statistics the code computes from the   *)
(* fetched bars: last close, RSI, 10-bar volatility, number of closes and  *)
(* annualised volatility of the returns.                                   *)
(***************************************************************************)
Prices == {94, 100}
RsiValues == {5, 50, 85, 95}
Vol10Values == {100, 600}
ContextInputs == {<<10, 90>>, <<20, 30>>, <<20, 90>>}

Snapshots ==
    {[price |-> p, rsi |-> r, vol10 |-> v, n_closes |-> c[1], ann_vol |-> c[2]] :
        p \in Prices, r \in RsiValues, v \in Vol10Values, c \in ContextInputs}

NoData == [price |-> 0, rsi |-> 0, vol10 |-> 0, n_closes |-> 0, ann_vol |-> 0]

\* The advisory call raises (error, timeout) or returns a text: without
\* braces, with braces around undecodable JSON, no text at all (None), or
\* a decodable JSON object.
\* a decoded JSON object of the advisory response
Rec(a, c, s, v) ==
    [action |-> a, confidence |-> c, stop_loss_pct |-> s,
     take_profit_pct |-> 1000, expected_risk_reward |-> 20,
     validity_period_hours |-> v, reason |-> "advisory"]

AdvisoryRecords ==
    {Rec(a, c, s, 4) :
        a \in {"buy", "sell", "hold", "long", "MISSING"},
        c \in {Num(-20), Num(50), Num(70), Num(90), Num(150), Missing, NonNum},
        s \in {Num(500), Num(0), Num(-500), Num(15000), Missing, NonNum}}

AdvisoryOutcomes ==
    {[kind |-> k, rec |-> Rec("hold", Num(0), Num(0), 0)] :
        k \in {"error", "timeout", "no_braces", "malformed", "none_text"}}
    \cup {[kind |-> "json", rec |-> r] : r \in AdvisoryRecords}

NoAdvisory == [kind |-> "none", rec |-> Rec("hold", Num(0), Num(0), 0)]

(***************************************************************************)
(* TechnicalAnalyzer.analyze_rsi: condition and strength of an RSI value.  *)
(***************************************************************************)
analyze_rsi(rsi_value) ==
    IF rsi_value < RsiOversold
    THEN [condition |-> "oversold",
          strength |-> FracMin(<<1, 1>>, Frac(RsiOversold - rsi_value, 30))]
    ELSE IF rsi_value > RsiOverbought
    THEN [condition |-> "overbought",
          strength |-> FracMin(<<1, 1>>, Frac(rsi_value - RsiOverbought, 30))]
    ELSE [condition |-> "neutral", strength |-> <<1, 2>>]

\* perform_technical_analysis returns {} without closes or volumes;
\* the prompt builder then fails on technical_analysis['rsi']
perform_technical_analysis(d) ==
    IF d.n_closes = 0
    THEN [empty |-> TRUE, rsi |-> analyze_rsi(50)]
    ELSE [empty |-> FALSE, rsi |-> analyze_rsi(d.rsi)]

(***************************************************************************)
(* MarketAnalyzer.assess_market_context: volatility bucket.                *)
(***************************************************************************)
assess_market_context(d) ==
    IF d.n_closes < MinCloses
    THEN [volatility |-> "unknown"]
    ELSE [volatility |->
            IF d.ann_vol > HighVolatility THEN "high"
            ELSE IF d.ann_vol > MediumVolatility THEN "medium"
            ELSE "low"]

(***************************************************************************)
(* ResponseParser.parse_response                                           *)
(***************************************************************************)
ParserDefault(why) ==
    [action |-> "hold", confidence |-> Num(50), stop_loss_pct |-> Num(500),
     take_profit_pct |-> 1000, expected_risk_reward |-> 20,
     validity_period_hours |-> 4, reason |-> why]

\* variant: every unparsed response answered with the fallback signal
parse_response_fallback(adv) ==
    CASE adv.kind = "json" -> adv.rec
      [] OTHER -> [ParserDefault("fallback") EXCEPT
                      !.confidence = Num(30), !.validity_period_hours = 1]

\* json.JSONDecodeError, and the AttributeError of None.find, are caught
parse_response(adv) ==
    CASE adv.kind = "json"      -> adv.rec
      [] adv.kind = "no_braces" -> ParserDefault("text_parse")
      [] OTHER                  -> ParserDefault("parse_error")

(***************************************************************************)
(* ResponseParser.validate_signal: "raise" models the TypeError of         *)
(* comparing a non-numeric confidence with 0 and 1.                        *)
(***************************************************************************)
ValidActions == {"buy", "sell", "hold"}

\* variant: the confidence is only checked against the lower bound
validate_signal_no_upper(parsed_result) ==
    LET confidence == IF parsed_result.confidence.kind = "missing"
                      THEN 0 ELSE parsed_result.confidence.val
        valid_action == parsed_result.action \in ValidActions
    IN  IF parsed_result.confidence.kind = "nonnum" THEN "raise"
        ELSE IF valid_action /\ 0 <= confidence
             THEN "valid" ELSE "invalid"

validate_signal(parsed_result) ==
    LET confidence == IF parsed_result.confidence.kind = "missing"
                      THEN 0 ELSE parsed_result.confidence.val
        valid_action == parsed_result.action \in ValidActions
    IN  IF parsed_result.confidence.kind = "nonnum" THEN "raise"
        ELSE IF valid_action /\ 0 <= confidence /\ confidence <= 100
             THEN "valid" ELSE "invalid"

(***************************************************************************)
(* SignalGenerator._get_default_signal                                     *)
(***************************************************************************)
\* variant: the default signal carries the parser's confidence and validity
get_default_signal_parser ==
    [action |-> "hold", confidence |-> Num(50), stop_loss_pct |-> Num(500),
     take_profit_pct |-> 1000, expected_risk_reward |-> 20,
     validity_period_hours |-> 4, reason |-> "fallback"]

get_default_signal ==
    [action |-> "hold", confidence |-> Num(30), stop_loss_pct |-> Num(500),
     take_profit_pct |-> 1000, expected_risk_reward |-> 20,
     validity_period_hours |-> 1, reason |-> "fallback"]

(***************************************************************************)
(* SignalGenerator.get_ai_signal: every exception of steps 1-6 is caught   *)
(* and answered with the default signal.                                   *)
(***************************************************************************)
get_ai_signal(market_data, adv) ==
    LET tech_analysis == perform_technical_analysis(market_data)
        parsed == parse_response(adv)
        verdict == validate_signal(parsed)
    IN  IF tech_analysis.empty THEN get_default_signal
        ELSE IF adv.kind \in {"error", "timeout"} THEN get_default_signal
        ELSE IF verdict = "raise" THEN get_default_signal
        ELSE IF verdict = "invalid" THEN get_default_signal
        ELSE IF parsed.confidence.kind = "missing" THEN get_default_signal
        ELSE parsed

(***************************************************************************)
(* The 10-bar volatility of the risk check, np.std(closes[-10:]) /         *)
(* np.mean(closes[-10:]), in basis points.  With n values of sum S and sum *)
(* of squares Q the ratio is sqrt(n * Q - S * S) / S; the windows drawn    *)
(* below make it a whole number of basis points.                           *)
(***************************************************************************)
VolatilityWindow == 10

RECURSIVE Sum(_)
Sum(seq) == IF seq = << >> THEN 0 ELSE Head(seq) + Sum(Tail(seq))

RECURSIVE SumSq(_)
SumSq(seq) ==
    IF seq = << >> THEN 0 ELSE Head(seq) * Head(seq) + SumSq(Tail(seq))

\* seq[-n:]
LastN(seq, n) ==
    IF Len(seq) <= n THEN seq ELSE SubSeq(seq, Len(seq) - n + 1, Len(seq))

\* the largest k in lo..hi with k * k <= x
RECURSIVE RootBetween(_, _, _)
RootBetween(x, lo, hi) ==
    IF lo = hi THEN lo
    ELSE LET mid == (lo + hi + 1) \div 2
         IN  IF mid * mid <= x THEN RootBetween(x, mid, hi)
             ELSE RootBetween(x, lo, mid - 1)

\* 46340 is the largest root of a 32-bit integer
ISqrt(x) == RootBetween(x, 0, IF x < 46340 THEN x ELSE 46340)

\* variant: the statistic is taken over all closes
volatility10_all_closes(closes) ==
    LET recent == closes
        n == Len(recent)
        S == Sum(recent)
    IN  (PctScale * ISqrt(n * SumSq(recent) - S * S)) \div S

volatility10(closes) ==
    LET recent == LastN(closes, VolatilityWindow)
        n == Len(recent)
        S == Sum(recent)
    IN  (PctScale * ISqrt(n * SumSq(recent) - S * S)) \div S

\* variant: an RSI equal to a limit is rejected as well
risk_management_check_inclusive(d, proposed_action) ==
    IF proposed_action = "hold" THEN TRUE
    ELSE IF d.vol10 > VolatilityLimit THEN FALSE
    ELSE IF proposed_action = "buy" /\ d.rsi >= RsiBuyLimit THEN FALSE
    ELSE IF proposed_action = "sell" /\ d.rsi <= RsiSellLimit THEN FALSE
    ELSE TRUE

(***************************************************************************)
(* RiskManager.risk_management_check                                       *)
(***************************************************************************)
risk_management_check(d, proposed_action) ==
    IF proposed_action = "hold" THEN TRUE
    ELSE IF d.vol10 > VolatilityLimit THEN FALSE
    ELSE IF proposed_action = "buy" /\ d.rsi > RsiBuyLimit THEN FALSE
    ELSE IF proposed_action = "sell" /\ d.rsi < RsiSellLimit THEN FALSE
    ELSE TRUE

(***************************************************************************)
(* RiskManager.calculate_position_size, stop_loss_pct # 0 in basis points. *)
(***************************************************************************)
\* variant: the result is not capped at 10% of the balance
calculate_position_size_uncapped(balance, risk_per_trade, stop_loss_pct) ==
    LET position_size == Frac(balance * risk_per_trade, stop_loss_pct)
        max_position == Frac(balance * MaxPositionPct, PctScale)
    IN  position_size

calculate_position_size(balance, risk_per_trade, stop_loss_pct) ==
    LET position_size == Frac(balance * risk_per_trade, stop_loss_pct)
        max_position == Frac(balance * MaxPositionPct, PctScale)
    IN  FracMin(position_size, max_position)

(***************************************************************************)
(* Exchange answers seen by one call of the order path: which call fails   *)
(* (none, fetch_balance, load_markets, create_order), the USDT balance and *)
(* the market's minimum amount.                                            *)
(***************************************************************************)
Balances == {5, 1000}
MinAmounts == {<<1, 1000>>}

ExchangeOutcomes ==
    {[fail |-> "none", balance |-> b, min_amount |-> m] :
        b \in Balances, m \in MinAmounts}
    \cup {[fail |-> f, balance |-> 1000, min_amount |-> m] :
        f \in {"balance", "markets", "order"}, m \in MinAmounts}

\* TradeExecutor._log_trade
log_trade(log, order, action) ==
    Append(log, [action |-> action, amount |-> order.amount])

(***************************************************************************)
(* TradeExecutor.execute_trade_with_risk_management.  The result gives the *)
(* new position, trade log and list of orders accepted by the exchange,    *)
(* whether the call raised, whether an exchange call failed, whether the   *)
(* risk check let the action through and whether fetch_balance was called. *)
(***************************************************************************)
Outcome(pos, log, ords, raised, exch_failed) ==
    [position |-> pos, trade_log |-> log, orders |-> ords,
     raised |-> raised, exch_failed |-> exch_failed,
     risk_passed |-> TRUE, balance_called |-> TRUE]

\* variant: a failed risk check is reported as an exception
Rejected_raising(pos, log, ords) ==
    [position |-> pos, trade_log |-> log, orders |-> ords,
     raised |-> TRUE, exch_failed |-> FALSE,
     risk_passed |-> FALSE, balance_called |-> FALSE]

\* the early return after a failed risk check
Rejected(pos, log, ords) ==
    [position |-> pos, trade_log |-> log, orders |-> ords,
     raised |-> FALSE, exch_failed |-> FALSE,
     risk_passed |-> FALSE, balance_called |-> FALSE]

\* variant: the position is recorded before the order is sent
execute_buy_recording_first(sig, d, pos, log, ords, ex) ==
    LET slp == IF sig.stop_loss_pct.kind = "missing"
               THEN DefaultStopLossPct ELSE sig.stop_loss_pct.val
        size == calculate_position_size(ex.balance, RiskPerTrade, slp)
        amount == FracMax(Frac(size[1], size[2] * d.price), ex.min_amount)
        order == [side |-> "buy", amount |-> amount]
        opened == [kind |-> "pos",
                   entry_price |-> d.price,
                   stop_loss |-> d.price * (PctScale - slp),
                   amount |-> amount]
    IN  IF sig.stop_loss_pct.kind = "nonnum" \/ slp = 0
        THEN Outcome(pos, log, ords, TRUE, FALSE)
        ELSE IF ex.fail = "markets"
        THEN Outcome(pos, log, ords, TRUE, TRUE)
        ELSE IF ex.fail = "order"
        THEN Outcome(opened, log, ords, TRUE, TRUE)
        ELSE IF sig.stop_loss_pct.kind = "missing"
        THEN Outcome(pos, log, Append(ords, order), TRUE, FALSE)
        ELSE Outcome(opened, log_trade(log, order, "BUY_EXECUTED"),
                     Append(ords, order), FALSE, FALSE)

execute_buy(sig, d, pos, log, ords, ex) ==
    LET slp == IF sig.stop_loss_pct.kind = "missing"
               THEN DefaultStopLossPct ELSE sig.stop_loss_pct.val
        size == calculate_position_size(ex.balance, RiskPerTrade, slp)
        amount == FracMax(Frac(size[1], size[2] * d.price), ex.min_amount)
        order == [side |-> "buy", amount |-> amount]
    IN  \* TypeError / ZeroDivisionError in calculate_position_size
        IF sig.stop_loss_pct.kind = "nonnum" \/ slp = 0
        THEN Outcome(pos, log, ords, TRUE, FALSE)
        ELSE IF ex.fail \in {"markets", "order"}
        THEN Outcome(pos, log, ords, TRUE, TRUE)
        \* the order is placed; signal['stop_loss_pct'] raises KeyError
        ELSE IF sig.stop_loss_pct.kind = "missing"
        THEN Outcome(pos, log, Append(ords, order), TRUE, FALSE)
        ELSE Outcome([kind |-> "pos",
                      entry_price |-> d.price,
                      stop_loss |-> d.price * (PctScale - sig.stop_loss_pct.val),
                      amount |-> amount],
                     log_trade(log, order, "BUY_EXECUTED"),
                     Append(ords, order), FALSE, FALSE)

\* variant: the position is not cleared after the sell
execute_sell_keeping_position(sig, d, pos, log, ords, ex) ==
    LET order == [side |-> "sell", amount |-> pos.amount]
    IN  IF ex.fail = "order"
        THEN Outcome(pos, log, ords, TRUE, TRUE)
        ELSE Outcome(pos, log_trade(log, order, "SELL_EXECUTED"),
                     Append(ords, order), FALSE, FALSE)

execute_sell(sig, d, pos, log, ords, ex) ==
    LET order == [side |-> "sell", amount |-> pos.amount]
    IN  IF ex.fail = "order"
        THEN Outcome(pos, log, ords, TRUE, TRUE)
        \* the final logging call reads self.position['amount'] after the
        \* position was cleared: TypeError, re-raised
        ELSE Outcome(None, log_trade(log, order, "SELL_EXECUTED"),
                     Append(ords, order), TRUE, FALSE)

\* variant: a sell is sent without looking at the position; with none held
\* the exchange minimum is sold
execute_trade_selling_unheld(sig, d, pos, log, ords, ex) ==
    IF ~risk_management_check(d, sig.action)
    THEN Rejected(pos, log, ords)
    ELSE IF ex.fail = "balance"
    THEN Outcome(pos, log, ords, TRUE, TRUE)
    ELSE IF sig.action = "buy" /\ ex.balance > MinBalance
    THEN execute_buy(sig, d, pos, log, ords, ex)
    ELSE IF sig.action = "sell"
    THEN execute_sell(sig, d,
                      IF pos = None THEN [amount |-> ex.min_amount] ELSE pos,
                      log, ords, ex)
    ELSE Outcome(pos, log, ords, FALSE, FALSE)

execute_trade_with_risk_management(sig, d, pos, log, ords, ex) ==
    IF ~risk_management_check(d, sig.action)
    THEN Rejected(pos, log, ords)
    ELSE IF ex.fail = "balance"
    THEN Outcome(pos, log, ords, TRUE, TRUE)
    ELSE IF sig.action = "buy" /\ ex.balance > MinBalance
    THEN execute_buy(sig, d, pos, log, ords, ex)
    ELSE IF sig.action = "sell" /\ pos # None
    THEN execute_sell(sig, d, pos, log, ords, ex)
    ELSE Outcome(pos, log, ords, FALSE, FALSE)

\* TradingBot._execute_stop_loss: the synthetic sell signal
stop_loss_signal ==
    [action |-> "sell", confidence |-> Num(100), stop_loss_pct |-> Num(0),
     take_profit_pct |-> 0, expected_risk_reward |-> 0,
     validity_period_hours |-> 0, reason |-> "stop_loss"]

NoSignal ==
    [action |-> "hold", confidence |-> Num(0), stop_loss_pct |-> Num(0),
     take_profit_pct |-> 0, expected_risk_reward |-> 0,
     validity_period_hours |-> 0, reason |-> "none"]

\* variant: a confidence equal to the threshold opens the gate
SignalTradable_at_least(sig) ==
    sig.action # "hold" /\ sig.confidence.val >= ConfidenceGate

\* run: the confidence gate and the stop-loss condition
SignalTradable(sig) ==
    sig.action # "hold" /\ sig.confidence.val > ConfidenceGate

StopLossHit(pos, d) ==
    pos # None /\ d.price * PctScale <= pos.stop_loss

(***************************************************************************)
(* Advisory answers drawn in the polling loop.                             *)
(***************************************************************************)
CycleAdvisories ==
    {a \in AdvisoryOutcomes :
        \/ a.kind # "json"
        \/ /\ a.rec.action \in {"buy", "sell", "hold", "long"}
           /\ a.rec.confidence \in {Num(70), Num(90)}
           /\ a.rec.stop_loss_pct = Num(500)
        \/ /\ a.rec.action = "buy"
           /\ a.rec.confidence = Num(90)}

NewCycle(pos, d, log, ords, failed) ==
    [sl_due |-> StopLossHit(pos, d), log0 |-> Len(log), ord0 |-> Len(ords),
     exch_failed |-> failed, sig_risk |-> "none", sl_risk |-> "none",
     balance_calls |-> 0, sl_raised |-> FALSE]

\* what one call of the order path adds to the record of the cycle
Recorded(c, r, path) ==
    [c EXCEPT !.exch_failed = @ \/ r.exch_failed,
              ![path] = IF r.risk_passed THEN "pass" ELSE "reject",
              !.balance_calls = @ + (IF r.balance_called THEN 1 ELSE 0)]

\* pure functions are applied outside the polling loop
NoCalc == [fn |-> "none"]

Init ==
    /\ pc = "fetch"
    /\ cycle = 0
    /\ data = NoData
    /\ advisory = NoAdvisory
    /\ signal = NoSignal
    /\ position = None
    /\ trade_log = << >>
    /\ orders = << >>
    /\ cyc = NewCycle(None, NoData, << >>, << >>, FALSE)
    /\ calc = NoCalc

\* run: get_enhanced_market_data returns a snapshot
FetchOkFrom(snapshots) ==
    /\ pc = "fetch"
    /\ cycle < MaxCycles
    /\ \E d \in snapshots :
        /\ data' = d
        /\ cyc' = NewCycle(position, d, trade_log, orders, FALSE)
    /\ pc' = "signal"
    /\ UNCHANGED <<calc, cycle, advisory, signal, position, trade_log, orders>>

FetchOk == FetchOkFrom(Snapshots)

\* run: get_enhanced_market_data raises
FetchFail ==
    /\ pc = "fetch"
    /\ cycle < MaxCycles
    /\ cyc' = NewCycle(None, NoData, trade_log, orders, TRUE)
    /\ pc' = "retry_sleep"
    /\ UNCHANGED <<calc, cycle, data, advisory, signal, position, trade_log, orders>>

\* run: signal = self.signal_generator.get_ai_signal(data)
GetAiSignalFrom(answers) ==
    /\ pc = "signal"
    /\ \E adv \in answers :
        /\ advisory' = adv
        /\ signal' = get_ai_signal(data, adv)
    /\ pc' = "gate"
    /\ UNCHANGED <<calc, cycle, data, position, trade_log, orders, cyc>>

GetAiSignal == GetAiSignalFrom(CycleAdvisories)

\* variant: a skipped signal ends the cycle without the stop-loss check
SkipTrade_to_sleep ==
    /\ pc = "gate"
    /\ ~SignalTradable(signal)
    /\ pc' = "sleep"
    /\ UNCHANGED <<calc, cycle, data, advisory, signal, position, trade_log, orders, cyc>>

\* run: the signal is hold or not confident enough
SkipTrade ==
    /\ pc = "gate"
    /\ ~SignalTradable(signal)
    /\ pc' = "stoploss"
    /\ UNCHANGED <<calc, cycle, data, advisory, signal, position, trade_log, orders, cyc>>

\* run: the signal goes to the order path; an exception leaves the cycle
ExecuteSignalTrade ==
    /\ pc = "gate"
    /\ SignalTradable(signal)
    /\ \E ex \in ExchangeOutcomes :
        LET r == execute_trade_with_risk_management(
                    signal, data, position, trade_log, orders, ex)
        IN  /\ position' = r.position
            /\ trade_log' = r.trade_log
            /\ orders' = r.orders
            /\ cyc' = Recorded(cyc, r, "sig_risk")
            /\ pc' = IF r.raised THEN "retry_sleep" ELSE "stoploss"
    /\ UNCHANGED <<calc, cycle, data, advisory, signal>>

\* run: no position, or the price is above the stop loss
StopLossIdle ==
    /\ pc = "stoploss"
    /\ ~StopLossHit(position, data)
    /\ pc' = "sleep"
    /\ UNCHANGED <<calc, cycle, data, advisory, signal, position, trade_log, orders, cyc>>

\* run / _execute_stop_loss: forced sell through the order path, every
\* exception swallowed
ExecuteStopLoss ==
    /\ pc = "stoploss"
    /\ StopLossHit(position, data)
    /\ \E ex \in ExchangeOutcomes :
        LET r == execute_trade_with_risk_management(
                    stop_loss_signal, data, position, trade_log, orders, ex)
        IN  /\ position' = r.position
            /\ trade_log' = r.trade_log
            /\ orders' = r.orders
            /\ cyc' = [Recorded(cyc, r, "sl_risk") EXCEPT
                        !.sl_raised = r.raised]
    /\ pc' = "sleep"
    /\ UNCHANGED <<calc, cycle, data, advisory, signal>>

\* run: time.sleep(trade_timeframe * 60), next cycle
NormalSleep ==
    /\ pc = "sleep"
    /\ pc' = "fetch"
    /\ cycle' = cycle + 1
    /\ data' = NoData
    /\ advisory' = NoAdvisory
    /\ signal' = NoSignal
    /\ UNCHANGED <<calc, position, trade_log, orders, cyc>>

\* variant: the handler gives up instead of sleeping and retrying
RetrySleep_giving_up ==
    /\ pc = "retry_sleep"
    /\ pc' = "stopped"
    /\ UNCHANGED <<calc, cycle, data, advisory, signal, position, trade_log,
                   orders, cyc>>

\* run: except Exception: time.sleep(60), next cycle
RetrySleep ==
    /\ pc = "retry_sleep"
    /\ pc' = "fetch"
    /\ cycle' = cycle + 1
    /\ data' = NoData
    /\ advisory' = NoAdvisory
    /\ signal' = NoSignal
    /\ UNCHANGED <<calc, position, trade_log, orders, cyc>>

Next ==
    \/ FetchOk
    \/ FetchFail
    \/ GetAiSignal
    \/ SkipTrade
    \/ ExecuteSignalTrade
    \/ StopLossIdle
    \/ ExecuteStopLoss
    \/ NormalSleep
    \/ RetrySleep

Spec == Init /\ [][Next]_vars

(***************************************************************************)
(* The signal generator alone: every snapshot, every advisory answer.      *)
(***************************************************************************)
InitFusion ==
    /\ pc = "signal"
    /\ cycle = 0
    /\ data \in Snapshots \cup {NoData}
    /\ advisory = NoAdvisory
    /\ signal = NoSignal
    /\ position = None
    /\ trade_log = << >>
    /\ orders = << >>
    /\ cyc = NewCycle(None, NoData, << >>, << >>, FALSE)
    /\ calc = NoCalc

Fuse == GetAiSignalFrom(AdvisoryOutcomes)

NextFusion == Fuse

SpecFusion == InitFusion /\ [][NextFusion]_vars

(***************************************************************************)
(* The polling loop under fairness.  run() is one sequential thread: every *)
(* step of a cycle is a call that returns or raises, and both sleeps       *)
(* return, so a step that can be taken is eventually taken.  The inputs    *)
(* are a part of those of the polling loop above.                          *)
(***************************************************************************)
LiveSnapshots ==
    {d \in Snapshots : d.rsi \in {5, 50} /\ d.vol10 = 100 /\ d.n_closes = 20
                       /\ d.ann_vol = 30}

LiveAdvisories ==
    {a \in CycleAdvisories :
        \/ a.kind = "timeout"
        \/ /\ a.kind = "json"
           /\ a.rec.action \in {"buy", "sell", "hold"}
           /\ a.rec.confidence = Num(90)
           /\ a.rec.stop_loss_pct \in {Num(500), Num(0), Missing}}

FetchLive == FetchOkFrom(LiveSnapshots)

GetLiveSignal == GetAiSignalFrom(LiveAdvisories)

NextLive ==
    \/ FetchLive
    \/ FetchFail
    \/ GetLiveSignal
    \/ SkipTrade
    \/ ExecuteSignalTrade
    \/ StopLossIdle
    \/ ExecuteStopLoss
    \/ NormalSleep
    \/ RetrySleep

SpecLive == Init /\ [][NextLive]_vars /\ WF_vars(NextLive)

(***************************************************************************)
(* The risk manager alone: the risk check over windows of closes around    *)
(* the 5% limit and RSI values around the limits 20 and 80, and the        *)
(* position size over balances, risk fractions and stop-loss fractions in  *)
(* basis points.                                                           *)
(***************************************************************************)
\* ten closes alternating between a and b: volatility |a - b| / (a + b)
Alt(a, b) == [i \in 1..10 |-> IF i % 2 = 1 THEN a ELSE b]

\* n closes at v
Flat(n, v) == [i \in 1..n |-> v]

CloseWindows ==
    {Alt(100, 100), Alt(52, 48), Alt(1049, 951), Alt(21, 19),
     Alt(1051, 949), Alt(53, 47),
     <<53, 47>> \o Alt(21, 19), Flat(30, 50) \o Alt(53, 47)}

RiskRsiValues == {19, 20, 21, 50, 79, 80, 81}
ProposedActions == {"buy", "sell", "hold"}

\* the part of get_enhanced_market_data's result the risk check reads
RiskSnapshot(closes, rsi) ==
    [price |-> closes[Len(closes)], rsi |-> rsi,
     vol10 |-> volatility10(closes), n_closes |-> Len(closes), ann_vol |-> 0]

SizeBalances == {1, 5, 1000}
SizeRisks == {1, 200, 5000, 9999}
SizeStops == {1, 500, 2000, 2001, 9999}

RiskInputs ==
    {[fn |-> "risk_management_check", done |-> FALSE, closes |-> w,
      rsi |-> r, action |-> a, result |-> FALSE] :
        w \in CloseWindows, r \in RiskRsiValues, a \in ProposedActions}

SizeInputs ==
    {[fn |-> "calculate_position_size", done |-> FALSE, balance |-> b,
      risk_per_trade |-> r, stop_loss_pct |-> s, result |-> <<0, 1>>] :
        b \in SizeBalances, r \in SizeRisks, s \in SizeStops}

InitRisk ==
    /\ pc = "calc"
    /\ cycle = 0
    /\ data = NoData
    /\ advisory = NoAdvisory
    /\ signal = NoSignal
    /\ position = None
    /\ trade_log = << >>
    /\ orders = << >>
    /\ cyc = NewCycle(None, NoData, << >>, << >>, FALSE)
    /\ calc \in RiskInputs \cup SizeInputs

CheckRisk ==
    /\ pc = "calc"
    /\ calc.fn = "risk_management_check"
    /\ ~calc.done
    /\ calc' = [calc EXCEPT
                  !.done = TRUE,
                  !.result = risk_management_check(
                                RiskSnapshot(calc.closes, calc.rsi),
                                calc.action)]
    /\ UNCHANGED <<pc, cycle, data, advisory, signal, position, trade_log,
                   orders, cyc>>

SizePosition ==
    /\ pc = "calc"
    /\ calc.fn = "calculate_position_size"
    /\ ~calc.done
    /\ calc' = [calc EXCEPT
                  !.done = TRUE,
                  !.result = calculate_position_size(
                                calc.balance, calc.risk_per_trade,
                                calc.stop_loss_pct)]
    /\ UNCHANGED <<pc, cycle, data, advisory, signal, position, trade_log,
                   orders, cyc>>

NextRisk ==
    \/ CheckRisk
    \/ SizePosition

SpecRisk == InitRisk /\ [][NextRisk]_vars

(***************************************************************************)
(* The technical analyzer alone.  The RSI value, the two most recent       *)
(* points of the MACD line and of its signal line (in units of 1e-10, the  *)
(* epsilon added to the denominator of the momentum), the closes and the   *)
(* volumes are the inputs.                                                 *)
(***************************************************************************)
ShortPeriod == 10
LongPeriod == 20
VolumeWindow == 5

\* variant: a golden (death) cross is reported whenever the line is above
\* (below) the signal line
analyze_macd_by_level(lines) ==
    LET hist == lines.macd - lines.signal
    IN  [trend |-> IF hist > 0 THEN "bullish" ELSE "bearish",
         momentum |-> FracMin(<<1, 1>>, Frac(Abs(hist), Abs(lines.macd) + 1)),
         crossover |->
            IF lines.n >= 2
            THEN IF lines.macd > lines.signal THEN "golden"
                 ELSE IF lines.macd < lines.signal THEN "death"
                 ELSE "none"
            ELSE "none"]

\* TechnicalAnalyzer.analyze_macd, from the lines on
analyze_macd(lines) ==
    LET hist == lines.macd - lines.signal
    IN  [trend |-> IF hist > 0 THEN "bullish" ELSE "bearish",
         momentum |-> FracMin(<<1, 1>>, Frac(Abs(hist), Abs(lines.macd) + 1)),
         crossover |->
            IF lines.n >= 2
            THEN IF lines.prev_macd <= lines.prev_signal
                    /\ lines.macd > lines.signal THEN "golden"
                 ELSE IF lines.prev_macd >= lines.prev_signal
                         /\ lines.macd < lines.signal THEN "death"
                 ELSE "none"
            ELSE "none"]

\* variant: the strength of a trend is not capped at 1
analyze_price_trend_uncapped(closes) ==
    IF Len(closes) < LongPeriod
    THEN [trend |-> "neutral", strength |-> <<0, 1>>]
    ELSE LET S == Sum(LastN(closes, ShortPeriod))
             L == Sum(LastN(closes, LongPeriod))
             current_price == closes[Len(closes)]
         IN  IF ShortPeriod * current_price > S
                /\ LongPeriod * S > ShortPeriod * L
             THEN [trend |-> "up",
                   strength |-> Frac(10 * (LongPeriod * current_price - L), L)]
             ELSE IF ShortPeriod * current_price < S
                     /\ LongPeriod * S < ShortPeriod * L
             THEN [trend |-> "down",
                   strength |-> Frac(10 * (L - LongPeriod * current_price), L)]
             ELSE [trend |-> "neutral", strength |-> <<1, 2>>]

\* TechnicalAnalyzer.analyze_price_trend: short_ma = S / 10, long_ma = L / 20
analyze_price_trend(closes) ==
    IF Len(closes) < LongPeriod
    THEN [trend |-> "neutral", strength |-> <<0, 1>>]
    ELSE LET S == Sum(LastN(closes, ShortPeriod))
             L == Sum(LastN(closes, LongPeriod))
             current_price == closes[Len(closes)]
         IN  IF ShortPeriod * current_price > S
                /\ LongPeriod * S > ShortPeriod * L
             THEN [trend |-> "up",
                   strength |-> FracMin(<<1, 1>>,
                       Frac(10 * (LongPeriod * current_price - L), L))]
             ELSE IF ShortPeriod * current_price < S
                     /\ LongPeriod * S < ShortPeriod * L
             THEN [trend |-> "down",
                   strength |-> FracMin(<<1, 1>>,
                       Frac(10 * (L - LongPeriod * current_price), L))]
             ELSE [trend |-> "neutral", strength |-> <<1, 2>>]

\* TechnicalAnalyzer.analyze_volume: the last five volumes against the five
\* before them, with factors 1.1 and 0.9
analyze_volume(volumes) ==
    IF Len(volumes) < 2 * VolumeWindow
    THEN [trend |-> "neutral"]
    ELSE LET n == Len(volumes)
             recent == Sum(SubSeq(volumes, n - VolumeWindow + 1, n))
             previous == Sum(SubSeq(volumes, n - 2 * VolumeWindow + 1,
                                    n - VolumeWindow))
         IN  IF 10 * recent > 11 * previous THEN [trend |-> "increasing"]
             ELSE IF 10 * recent < 9 * previous THEN [trend |-> "decreasing"]
             ELSE [trend |-> "stable"]

\* the counting of signals, shared by the analysis and its variant
Aggregate(rsi_analysis, macd_analysis, price_trend, volume_analysis, bullish_signals, bearish_signals) ==
    [rsi |-> rsi_analysis, macd |-> macd_analysis,
     price_trend |-> price_trend, volume |-> volume_analysis,
     bullish_signals |-> bullish_signals,
     bearish_signals |-> bearish_signals,
     overall_strength |->
        Frac(Abs(bullish_signals - bearish_signals),
             IF bullish_signals + bearish_signals > 1
             THEN bullish_signals + bearish_signals ELSE 1),
     signal_bias |-> IF bullish_signals > bearish_signals THEN "bullish"
                     ELSE IF bearish_signals > bullish_signals THEN "bearish"
                     ELSE "neutral"]

\* variant: a decreasing volume counts as a bearish signal
technical_analysis_symmetric(rsi_value, lines, closes, volumes) ==
    LET rsi_analysis == analyze_rsi(rsi_value)
        macd_analysis == analyze_macd(lines)
        price_trend == analyze_price_trend(closes)
        volume_analysis == analyze_volume(volumes)
        bullish_signals ==
            (IF rsi_analysis.condition = "oversold" THEN 1 ELSE 0)
            + (IF macd_analysis.crossover = "golden" THEN 1 ELSE 0)
            + (IF price_trend.trend = "up" THEN 1 ELSE 0)
            + (IF volume_analysis.trend = "increasing" THEN 1 ELSE 0)
        bearish_signals ==
            (IF rsi_analysis.condition = "overbought" THEN 1 ELSE 0)
            + (IF macd_analysis.crossover = "death" THEN 1 ELSE 0)
            + (IF price_trend.trend = "down" THEN 1 ELSE 0)
            + (IF volume_analysis.trend = "decreasing" THEN 1 ELSE 0)
    IN  Aggregate(rsi_analysis, macd_analysis, price_trend, volume_analysis,
                  bullish_signals, bearish_signals)

\* TechnicalAnalyzer.perform_technical_analysis with closes and volumes
technical_analysis(rsi_value, lines, closes, volumes) ==
    LET rsi_analysis == analyze_rsi(rsi_value)
        macd_analysis == analyze_macd(lines)
        price_trend == analyze_price_trend(closes)
        volume_analysis == analyze_volume(volumes)
        bullish_signals ==
            (IF rsi_analysis.condition = "oversold" THEN 1 ELSE 0)
            + (IF macd_analysis.crossover = "golden" THEN 1 ELSE 0)
            + (IF price_trend.trend = "up" THEN 1 ELSE 0)
            + (IF volume_analysis.trend = "increasing" THEN 1 ELSE 0)
        bearish_signals ==
            (IF rsi_analysis.condition = "overbought" THEN 1 ELSE 0)
            + (IF macd_analysis.crossover = "death" THEN 1 ELSE 0)
            + (IF price_trend.trend = "down" THEN 1 ELSE 0)
    IN  Aggregate(rsi_analysis, macd_analysis, price_trend, volume_analysis,
                  bullish_signals, bearish_signals)

AnalysisRsiValues == {5, 29, 30, 50, 70, 71, 95}

MacdLines ==
    {[n |-> 2, prev_macd |-> pm, prev_signal |-> ps, macd |-> m, signal |-> g] :
        pm \in {-1, 0, 2}, ps \in {-1, 0, 2}, m \in {-1, 0, 2},
        g \in {-1, 0, 2}}
    \cup {[n |-> 1, prev_macd |-> 0, prev_signal |-> 0, macd |-> 0,
           signal |-> 0]}

CloseHistories ==
    {Flat(20, 100), Flat(5, 100),
     Flat(19, 100) \o <<101>>, Flat(10, 100) \o Flat(9, 110) \o <<130>>,
     Flat(19, 100) \o <<99>>, Flat(10, 100) \o Flat(9, 90) \o <<70>>,
     Flat(10, 110) \o Flat(9, 100) \o <<105>>}

VolumeHistories ==
    {Flat(10, 100), Flat(3, 100),
     Flat(5, 100) \o Flat(5, 110), Flat(5, 100) \o Flat(5, 111),
     Flat(5, 100) \o Flat(5, 90), Flat(5, 100) \o Flat(5, 89)}

NoAnalysis ==
    Aggregate(analyze_rsi(50), [trend |-> "bearish", momentum |-> <<0, 1>>,
                                crossover |-> "none"],
              [trend |-> "neutral", strength |-> <<0, 1>>],
              [trend |-> "neutral"], 0, 0)

AnalysisInputs ==
    {[fn |-> "perform_technical_analysis", done |-> FALSE, rsi |-> r,
      lines |-> l, closes |-> c, volumes |-> v, result |-> NoAnalysis] :
        r \in AnalysisRsiValues, l \in MacdLines, c \in CloseHistories,
        v \in VolumeHistories}

InitAnalysis ==
    /\ pc = "calc"
    /\ cycle = 0
    /\ data = NoData
    /\ advisory = NoAdvisory
    /\ signal = NoSignal
    /\ position = None
    /\ trade_log = << >>
    /\ orders = << >>
    /\ cyc = NewCycle(None, NoData, << >>, << >>, FALSE)
    /\ calc \in AnalysisInputs

Analyze ==
    /\ pc = "calc"
    /\ calc.fn = "perform_technical_analysis"
    /\ ~calc.done
    /\ calc' = [calc EXCEPT
                  !.done = TRUE,
                  !.result = technical_analysis(calc.rsi, calc.lines,
                                                calc.closes, calc.volumes)]
    /\ UNCHANGED <<pc, cycle, data, advisory, signal, position, trade_log,
                   orders, cyc>>

NextAnalysis == Analyze

SpecAnalysis == InitAnalysis /\ [][NextAnalysis]_vars

(***************************************************************************)
(* The response parser alone, on advisory texts made of four kinds of      *)
(* pieces: an opening brace, a closing brace, a key-value pair of a JSON   *)
(* object, and any other text.  json.loads accepts a piece of text exactly *)
(* when it is one object: braces matched, nothing but pairs and nested     *)
(* objects inside.                                                         *)
(***************************************************************************)
MaxTextLen == 5

Pieces == {"{", "}", "kv", "x"}

Texts == UNION {[1..n -> Pieces] : n \in 0..MaxTextLen}

\* opening minus closing braces among the first i pieces
RECURSIVE DepthAfter(_, _)
DepthAfter(text, i) ==
    IF i = 0 THEN 0
    ELSE DepthAfter(text, i - 1)
         + (IF text[i] = "{" THEN 1 ELSE IF text[i] = "}" THEN -1 ELSE 0)

\* json.loads succeeds
IsJsonObject(text) ==
    /\ Len(text) >= 2
    /\ text[1] = "{"
    /\ \A i \in 1..Len(text) : text[i] # "x"
    /\ \A i \in 1..(Len(text) - 1) : DepthAfter(text, i) > 0
    /\ DepthAfter(text, Len(text)) = 0

\* the dict json.loads returns: the signal record when the object has
\* pairs, an empty dict otherwise
Decoded(text) ==
    IF \E i \in 1..Len(text) : text[i] = "kv"
    THEN Rec("buy", Num(90), Num(500), 4)
    ELSE [Rec("MISSING", Missing, Missing, 0) EXCEPT !.reason = "empty"]

\* response_text.find('{') and response_text.rfind('}'), 0 when absent
Find(text, piece) ==
    IF \E i \in 1..Len(text) : text[i] = piece
    THEN CHOOSE i \in 1..Len(text) :
            text[i] = piece /\ \A j \in 1..(i - 1) : text[j] # piece
    ELSE 0

RFind(text, piece) ==
    IF \E i \in 1..Len(text) : text[i] = piece
    THEN CHOOSE i \in 1..Len(text) :
            text[i] = piece /\ \A j \in (i + 1)..Len(text) : text[j] # piece
    ELSE 0

\* parse_response up to json.loads: which of the advisory answers a text is
read_response(response) ==
    IF response.is_none THEN [kind |-> "none_text", rec |-> NoAdvisory.rec]
    ELSE LET text == response.text
             json_start == Find(text, "{")
             json_end == RFind(text, "}")
         IN  IF json_start > 0 /\ json_end > json_start
             THEN IF IsJsonObject(SubSeq(text, json_start, json_end))
                  THEN [kind |-> "json",
                        rec |-> Decoded(SubSeq(text, json_start, json_end))]
                  ELSE [kind |-> "malformed", rec |-> NoAdvisory.rec]
             ELSE [kind |-> "no_braces", rec |-> NoAdvisory.rec]

ParseInputs ==
    {[fn |-> "parse_response", done |-> FALSE, is_none |-> FALSE,
      text |-> t, raised |-> FALSE, result |-> NoSignal] : t \in Texts}
    \cup {[fn |-> "parse_response", done |-> FALSE, is_none |-> TRUE,
           text |-> << >>, raised |-> FALSE, result |-> NoSignal]}

InitParse ==
    /\ pc = "calc"
    /\ cycle = 0
    /\ data = NoData
    /\ advisory = NoAdvisory
    /\ signal = NoSignal
    /\ position = None
    /\ trade_log = << >>
    /\ orders = << >>
    /\ cyc = NewCycle(None, NoData, << >>, << >>, FALSE)
    /\ calc \in ParseInputs

\* both except clauses of parse_response return a record: nothing is raised
ParseText ==
    /\ pc = "calc"
    /\ calc.fn = "parse_response"
    /\ ~calc.done
    /\ calc' = [calc EXCEPT
                  !.done = TRUE,
                  !.raised = FALSE,
                  !.result = parse_response(read_response(calc))]
    /\ UNCHANGED <<pc, cycle, data, advisory, signal, position, trade_log,
                   orders, cyc>>

NextParse == ParseText

SpecParse == InitParse /\ [][NextParse]_vars

(***************************************************************************)
(* Properties.                                                             *)
(***************************************************************************)
BuyPlaced ==
    /\ Len(orders') = Len(orders) + 1
    /\ orders'[Len(orders')].side = "buy"

SellPlaced ==
    /\ Len(orders') = Len(orders) + 1
    /\ orders'[Len(orders')].side = "sell"

CycleEnded == pc \in {"sleep", "retry_sleep"}

\* C1: while a position is held, a buy signal that passes the confidence
\* gate and the risk check places no order and leaves the position as it is
C1_SinglePositionPolicy ==
    [][(/\ pc = "gate"
        /\ position # None
        /\ signal.action = "buy"
        /\ SignalTradable(signal)
        /\ risk_management_check(data, "buy"))
       => (orders' = orders /\ position' = position)]_vars

\* C2: a cycle that starts with a position whose stop loss is reached by the
\* fetched price, and in which no exchange call fails, ends with a sell order
\* placed, no position and exactly one new log entry, a SELL_EXECUTED
C2_StopLossLiquidation ==
    (CycleEnded /\ cyc.sl_due /\ ~cyc.exch_failed)
    => /\ position = None
       /\ Len(trade_log) = cyc.log0 + 1
       /\ trade_log[Len(trade_log)].action = "SELL_EXECUTED"
       /\ Len(orders) = cyc.ord0 + 1
       /\ orders[Len(orders)].side = "sell"

\* C3: the trade log has one entry per order the exchange accepted
C3_AuditCompleteness == Len(trade_log) = Len(orders)

\* C4: the position is absent, or has entry_price > 0,
\* 0 < stop_loss < entry_price and amount > 0
C4_PositionWellFormed ==
    \/ position = None
    \/ /\ position.entry_price > 0
       /\ 0 < position.stop_loss
       /\ position.stop_loss < position.entry_price * PctScale
       /\ FracPos(position.amount)

\* C5: the position appears exactly in the steps that place a buy order and
\* disappears exactly in the steps that place a sell order; every buy order
\* placed leaves a position, and a step without an order leaves it alone
C5_PositionLifecycle ==
    [][/\ (position = None /\ position' # None) => BuyPlaced
       /\ (position # None /\ position' = None) => SellPlaced
       /\ BuyPlaced => position' # None
       /\ SellPlaced => position' = None
       /\ orders' = orders => position' = position]_vars

\* C6: the signal returned by get_ai_signal has action buy, sell or hold and
\* a numeric confidence within [0, 1], whatever the advisory answer
C6_SignalWellFormed ==
    pc = "gate"
    => /\ signal.action \in {"buy", "sell", "hold"}
       /\ signal.confidence.kind = "num"
       /\ 0 <= signal.confidence.val
       /\ signal.confidence.val <= 100

C6_Witness ==
    /\ pc = "gate"
    /\ advisory.kind = "json"
    /\ advisory.rec.action = "buy"
    /\ advisory.rec.confidence = Num(150)
    /\ signal.action = "hold"

FixedFallback ==
    [action |-> "hold", confidence |-> Num(30), stop_loss_pct |-> Num(500),
     take_profit_pct |-> 1000, expected_risk_reward |-> 20,
     validity_period_hours |-> 1, reason |-> "fallback"]

StronglyOverbought(d) ==
    /\ analyze_rsi(d.rsi).condition = "overbought"
    /\ FracLess(<<7, 10>>, analyze_rsi(d.rsi).strength)

StronglyOversold(d) ==
    /\ analyze_rsi(d.rsi).condition = "oversold"
    /\ FracLess(<<7, 10>>, analyze_rsi(d.rsi).strength)

\* a decoded record that passes validation
AdvisoryAccepted ==
    /\ advisory.kind = "json"
    /\ advisory.rec.confidence.kind = "num"
    /\ validate_signal(advisory.rec) = "valid"

\* C9: with a strongly overbought RSI the returned signal is never a buy, with
\* a strongly oversold RSI never a sell; an advisory buy (sell) is then turned
\* into hold with half the advisory confidence
C9_RsiSafetyOverride ==
    pc = "gate"
    => /\ StronglyOverbought(data) => signal.action # "buy"
       /\ StronglyOversold(data) => signal.action # "sell"
       /\ (/\ AdvisoryAccepted
           /\ \/ StronglyOverbought(data) /\ advisory.rec.action = "buy"
              \/ StronglyOversold(data) /\ advisory.rec.action = "sell")
          => /\ signal.action = "hold"
             /\ 2 * signal.confidence.val <= advisory.rec.confidence.val

\* C10: in a market context of high volatility the returned confidence is
\* 0.7 times the advisory confidence (halved first when the RSI override
\* applies) and the stop loss is min(1.5 * advisory stop loss, 0.10)
C10_HighVolatilityAdjustment ==
    (/\ pc = "gate"
     /\ assess_market_context(data).volatility = "high"
     /\ AdvisoryAccepted
     /\ advisory.rec.stop_loss_pct.kind = "num")
    => /\ \/ 100 * signal.confidence.val = 70 * advisory.rec.confidence.val
          \/ 200 * signal.confidence.val = 70 * advisory.rec.confidence.val
       /\ signal.stop_loss_pct.kind = "num"
       /\ \/ 2 * signal.stop_loss_pct.val = 3 * advisory.rec.stop_loss_pct.val
          \/ signal.stop_loss_pct.val = 1000

\* the confidence of a record moved to the nearest bound of [0, 1]
Clamped(c) ==
    IF c.val < 0 THEN Num(0) ELSE IF c.val > 100 THEN Num(100) ELSE c

\* C11: when the decoded advisory record has a confidence outside [0, 1], the
\* returned signal is the record with the confidence moved to the nearest
\* bound; when its action is not buy, sell or hold, the returned signal is the
\* record with action hold.
C11_ClampAndCoerce ==
    (/\ pc = "gate"
     /\ data.n_closes > 0
     /\ advisory.kind = "json"
     /\ advisory.rec.confidence.kind = "num")
    => signal = [advisory.rec EXCEPT
                    !.confidence = Clamped(@),
                    !.action = IF @ \in ValidActions THEN @ ELSE "hold"]

\* the fused signal is hold or its confidence is at most 0.7
BelowGate(sig) == sig.action = "hold" \/ sig.confidence.val <= ConfidenceGate

\* C12: in a cycle whose fused signal is hold or has confidence <= 0.7 the
\* risk check is not consulted for the signal and no signal-driven order is
\* placed: the gate step changes neither position, orders nor trade log, and
\* the position changes only in the stop-loss step.
C12_ConfidenceGate ==
    /\ []((pc \in {"stoploss", "sleep", "retry_sleep"} /\ BelowGate(signal))
            => cyc.sig_risk = "none")
    /\ [][(pc = "gate" /\ BelowGate(signal))
            => (/\ UNCHANGED <<position, orders, trade_log>>
                /\ cyc'.sig_risk = "none"
                /\ cyc'.balance_calls = 0)]_vars
    /\ [][(BelowGate(signal) /\ position' # position) => pc = "stoploss"]_vars

C12_Witness ==
    /\ pc = "stoploss"
    /\ signal.action = "buy"
    /\ signal.confidence = Num(ConfidenceGate)
    /\ cyc.sig_risk = "none"
    /\ position # None

\* the risk check of a window of closes was applied
RiskChecked == calc.fn = "risk_management_check" /\ calc.done

\* stdev / mean of the last ten closes exceeds 0.05:
\* 400 * (10 * sum of squares - sum^2) > sum^2
VolatilityAbove5Pct(closes) ==
    LET n == Len(closes)
        w == [i \in 1..10 |-> closes[n - 10 + i]]
    IN  400 * (10 * SumSq(w) - Sum(w) * Sum(w)) > Sum(w) * Sum(w)

\* C13 as stated: the risk check returns false for every proposed action,
\* hold included, whenever the 10-bar volatility exceeds 0.05.
C13_VolatilityRejectsEveryAction ==
    (RiskChecked /\ VolatilityAbove5Pct(calc.closes)) => calc.result = FALSE

\* C13: whenever the 10-bar volatility exceeds 0.05 the risk check returns
\* false for a proposed buy and for a proposed sell; a proposed hold is let
\* through whatever the volatility.
C13_VolatilityRejectsBuyAndSell ==
    (RiskChecked /\ VolatilityAbove5Pct(calc.closes))
    => calc.result = (calc.action = "hold")

C13_Witness ==
    /\ RiskChecked
    /\ VolatilityAbove5Pct(calc.closes)
    /\ Len(calc.closes) > 10
    /\ calc.action = "buy"
    /\ calc.rsi = 50
    /\ calc.result = FALSE

\* C14: the risk check lets every hold through; a buy or sell passes exactly
\* when the 10-bar volatility is at most 0.05 and not (buy and RSI > 80) and
\* not (sell and RSI < 20), so RSI 80, RSI 20 and volatility 0.05 all pass.
C14_RiskDecisionTable ==
    RiskChecked
    => calc.result =
        (\/ calc.action = "hold"
         \/ /\ ~VolatilityAbove5Pct(calc.closes)
            /\ ~(calc.action = "buy" /\ calc.rsi > 80)
            /\ ~(calc.action = "sell" /\ calc.rsi < 20))

C14_Witness ==
    /\ RiskChecked
    /\ calc.closes = Alt(21, 19)
    /\ calc.action = "buy"
    /\ calc.rsi = 80
    /\ calc.result = TRUE

\* C15: for a balance > 0 and risk_per_trade, stop_loss_pct in (0, 1) the
\* position size is min(balance * risk_per_trade / stop_loss_pct,
\* balance * 0.10), lies in (0, balance * 0.10], and is 100 for balance 1000,
\* risk_per_trade 0.02, stop_loss_pct 0.05.
C15_PositionSizing ==
    (calc.fn = "calculate_position_size" /\ calc.done)
    => /\ calc.result =
            (IF 10 * calc.risk_per_trade <= calc.stop_loss_pct
             THEN Frac(calc.balance * calc.risk_per_trade, calc.stop_loss_pct)
             ELSE Frac(calc.balance, 10))
       /\ calc.result[1] > 0
       /\ calc.result[2] > 0
       /\ 10 * calc.result[1] <= calc.balance * calc.result[2]
       /\ (calc.balance = 1000 /\ calc.risk_per_trade = 200
           /\ calc.stop_loss_pct = 500) => calc.result = <<100, 1>>

C15_Witness ==
    /\ calc.fn = "calculate_position_size"
    /\ calc.done
    /\ calc.balance = 1000
    /\ calc.risk_per_trade = 200
    /\ calc.stop_loss_pct = 500
    /\ calc.result = <<100, 1>>

\* a step in which the risk check lets a sell through: a signal-driven sell
\* at the gate, or the forced sell of the stop-loss path
SellAccepted ==
    \/ pc = "gate" /\ signal.action = "sell" /\ cyc'.sig_risk = "pass"
    \/ pc = "stoploss" /\ cyc'.sl_risk = "pass"

\* C16: when a position is held, a sell is accepted by the risk check and no
\* exchange call fails, a sell order for exactly the recorded amount is placed
\* and the position is absent afterwards; no sell order is placed otherwise.
C16_SellTransition ==
    /\ [][(position # None /\ SellAccepted /\ ~cyc'.exch_failed)
            => (/\ SellPlaced
                /\ orders'[Len(orders')].amount = position.amount
                /\ position' = None)]_vars
    /\ [][SellPlaced
            => (/\ position # None
                /\ SellAccepted
                /\ orders'[Len(orders')].amount = position.amount
                /\ position' = None)]_vars

C16_Witness ==
    /\ cyc.sig_risk = "pass"
    /\ signal.action = "sell"
    /\ Len(orders) = cyc.ord0 + 1
    /\ orders[Len(orders)].side = "sell"
    /\ Len(orders) >= 2
    /\ orders[Len(orders)].amount = orders[Len(orders) - 1].amount
    /\ position = None

\* C17: a sell arriving while no position is held, from the signal or from
\* the stop-loss check, places no order, leaves the position absent and
\* leaves the trade log unchanged.
C17_SellWhileFlatIsNoOp ==
    [][(/\ position = None
        /\ \/ pc = "gate" /\ signal.action = "sell"
           \/ pc = "stoploss")
        => UNCHANGED <<position, orders, trade_log>>]_vars

C17_Witness ==
    /\ pc = "stoploss"
    /\ signal.action = "sell"
    /\ cyc.sig_risk = "pass"
    /\ cyc.balance_calls = 1
    /\ position = None
    /\ Len(orders) = cyc.ord0
    /\ Len(trade_log) = cyc.log0

\* C18: when the risk check rejects a proposed buy or sell, fetch_balance is
\* not called, no order is placed, position and trade log stay as they are,
\* nothing is raised, and the cycle goes on to its stop-loss check and ends
\* with the normal sleep.
C18_RiskRejectionNoEffect ==
    /\ [][(/\ pc = "gate"
           /\ SignalTradable(signal)
           /\ ~risk_management_check(data, signal.action))
            => (/\ UNCHANGED <<position, orders, trade_log>>
                /\ cyc'.sig_risk = "reject"
                /\ cyc'.balance_calls = cyc.balance_calls
                /\ ~cyc'.exch_failed
                /\ pc' = "stoploss")]_vars
    /\ [][(/\ pc = "stoploss"
           /\ StopLossHit(position, data)
           /\ ~risk_management_check(data, "sell"))
            => (/\ UNCHANGED <<position, orders, trade_log>>
                /\ cyc'.sl_risk = "reject"
                /\ cyc'.balance_calls = cyc.balance_calls
                /\ ~cyc'.exch_failed
                /\ pc' = "sleep")]_vars
    /\ [][(pc = "stoploss" /\ cyc.sig_risk = "reject") => pc' = "sleep"]_vars
    /\ [](cyc.sig_risk = "reject" => pc # "retry_sleep")

C18_Witness ==
    /\ pc = "sleep"
    /\ cyc.sig_risk = "reject"
    /\ signal.action = "buy"
    /\ position # None
    /\ cyc.balance_calls = 0
    /\ Len(orders) = cyc.ord0
    /\ Len(trade_log) = cyc.log0

\* C19: whatever a cycle raises, the loop does not end: from every point of
\* a cycle, failed or not, the head of the loop is reached again.
C19_CrashResilientLoop ==
    /\ [](pc \in {"fetch", "signal", "gate", "stoploss", "sleep",
                  "retry_sleep"})
    /\ [](pc # "fetch" => <>(pc = "fetch"))
    /\ (pc = "retry_sleep") ~> (pc = "fetch")

\* a new cycle begins after one that raised without any exchange failure
C19_Witness ==
    /\ pc = "signal"
    /\ cycle > 0
    /\ position = None
    /\ orders # << >>
    /\ orders[Len(orders)].side = "sell"

\* C20 as stated: the 60-second retry sleep is taken only after a cycle in
\* which the market-data fetch or a balance / order call of the exchange
\* failed; a cycle whose external calls all succeed ends with the normal
\* sleep.
C20_SleepSelection ==
    pc = "retry_sleep" => cyc.exch_failed

\* the analysis of an input history was computed
Analyzed == calc.fn = "perform_technical_analysis" /\ calc.done

\* a fraction within [0, 1]
InUnitInterval(x) == x[2] > 0 /\ 0 <= x[1] /\ x[1] <= x[2]

\* C21: for every input history the RSI strength, the MACD momentum, the
\* price-trend strength and overall_strength lie in [0, 1].
C21_StrengthsInUnitInterval ==
    Analyzed
    => /\ InUnitInterval(calc.result.rsi.strength)
       /\ InUnitInterval(calc.result.macd.momentum)
       /\ InUnitInterval(calc.result.price_trend.strength)
       /\ InUnitInterval(calc.result.overall_strength)

C21_Witness ==
    /\ Analyzed
    /\ calc.result.price_trend.trend = "up"
    /\ calc.result.price_trend.strength = <<1, 1>>
    /\ calc.result.macd.momentum = <<1, 1>>
    /\ calc.result.rsi.strength = <<5, 6>>

\* one point for each condition of the list that holds
Points(conditions) == Cardinality({i \in DOMAIN conditions : conditions[i]})

\* C24: bullish_signals counts one point each for RSI oversold, golden cross,
\* up-trend and increasing volume; bearish_signals one point each for RSI
\* overbought, death cross and down-trend, nothing for a decreasing volume;
\* overall_strength = |bullish - bearish| / max(bullish + bearish, 1);
\* signal_bias is the majority, neutral on a tie.
C24_SignalAggregation ==
    Analyzed
    => LET r == calc.result
           bullish == Points(<<r.rsi.condition = "oversold",
                               r.macd.crossover = "golden",
                               r.price_trend.trend = "up",
                               r.volume.trend = "increasing">>)
           bearish == Points(<<r.rsi.condition = "overbought",
                               r.macd.crossover = "death",
                               r.price_trend.trend = "down">>)
           total == IF bullish + bearish >= 1 THEN bullish + bearish ELSE 1
       IN  /\ r.bullish_signals = bullish
           /\ r.bearish_signals = bearish
           /\ r.overall_strength[1] * total
                = Abs(bullish - bearish) * r.overall_strength[2]
           /\ r.signal_bias = "bullish" <=> bullish > bearish
           /\ r.signal_bias = "bearish" <=> bearish > bullish
           /\ r.signal_bias = "neutral" <=> bullish = bearish

C24_Witness ==
    /\ Analyzed
    /\ calc.result.volume.trend = "decreasing"
    /\ calc.result.rsi.condition = "oversold"
    /\ calc.result.macd.crossover = "death"
    /\ calc.result.price_trend.trend = "neutral"
    /\ calc.result.bullish_signals = 1
    /\ calc.result.bearish_signals = 1
    /\ calc.result.overall_strength = <<0, 1>>
    /\ calc.result.signal_bias = "neutral"

\* C25: with two points available, crossover is golden exactly when the
\* previous MACD line was <= the previous signal line and the current line
\* is > the current signal line, death exactly when the previous line was >=
\* the previous signal line and the current line is < the current signal
\* line, and none otherwise; a line that stays above or below reports none.
C25_MacdCrossover ==
    Analyzed
    => LET l == calc.lines
           x == calc.result.macd.crossover
       IN  /\ x \in {"golden", "death", "none"}
           /\ x = "golden" <=> (/\ l.n >= 2
                                /\ l.prev_macd <= l.prev_signal
                                /\ l.macd > l.signal)
           /\ x = "death" <=> (/\ l.n >= 2
                               /\ l.prev_macd >= l.prev_signal
                               /\ l.macd < l.signal)
           /\ (l.prev_macd > l.prev_signal /\ l.macd > l.signal) => x = "none"
           /\ (l.prev_macd < l.prev_signal /\ l.macd < l.signal) => x = "none"

C25_Witness ==
    /\ Analyzed
    /\ calc.lines.n = 2
    /\ calc.lines.prev_macd = calc.lines.prev_signal
    /\ calc.lines.macd > calc.lines.signal
    /\ calc.result.macd.crossover = "golden"

\* C22: whenever the forced liquidation raises, the exception stays inside
\* _execute_stop_loss (the cycle goes on to the normal sleep) and the
\* position is left as it was, still held, so that the stop loss is tried
\* again in the next cycle whose price is at or below it.
C22_StopLossFailureRetryable ==
    [][(pc = "stoploss" /\ cyc'.sl_raised)
        => (/\ pc' = "sleep"
            /\ position' = position
            /\ position' # None)]_vars

\* the first balanced {...} block of a text, << >> when there is none
FirstBalancedBlock(text) ==
    LET start == Find(text, "{")
        ends == {j \in (start + 1)..Len(text) :
                    /\ text[j] = "}"
                    /\ DepthAfter(text, j) = DepthAfter(text, start) - 1}
    IN  IF start = 0 \/ ends = {} THEN << >>
        ELSE SubSeq(text, start, CHOOSE j \in ends : \A k \in ends : j <= k)

\* the default record of the parser, whatever its reason text
IsParserDefault(rec) ==
    [rec EXCEPT !.reason = "unparsed"]
        = [ParserDefault("unparsed") EXCEPT !.reason = "unparsed"]

\* C23: parse_response decodes the first balanced {...} block of the text,
\* also when further text with braces follows it; when there is no such
\* block or it cannot be decoded it returns the default record hold / 0.5 /
\* 0.05 / 0.10 / 2.0 / 4 hours; it never raises.
C23_FirstBalancedBlock ==
    (calc.fn = "parse_response" /\ calc.done)
    => /\ ~calc.raised
       /\ LET block == FirstBalancedBlock(calc.text)
          IN  IF ~calc.is_none /\ block # << >> /\ IsJsonObject(block)
              THEN calc.result = Decoded(block)
              ELSE IsParserDefault(calc.result)

\* the amounts of the buy orders minus the amounts of the sell orders
RECURSIVE NetBought(_)
NetBought(ords) ==
    IF ords = << >> THEN <<0, 1>>
    ELSE LET rest == NetBought(Tail(ords))
             a == Head(ords).amount
             sign == IF Head(ords).side = "buy" THEN 1 ELSE -1
         IN  Frac(sign * a[1] * rest[2] + rest[1] * a[2], a[2] * rest[2])

\* C26: between cycles the total amount of the buy orders placed minus the
\* total amount of the sell orders placed equals the amount of the recorded
\* position, zero when none is held.
C26_HoldingsConsistency ==
    pc = "fetch"
    => NetBought(orders) = (IF position = None THEN <<0, 1>>
                            ELSE position.amount)

\* C27: a position opened by a buy is never closed by the stop-loss check of
\* the same cycle, its stop loss being strictly below the snapshot price of
\* both the entry and the comparison; at most one order is placed per cycle.
C27_NoSameCycleLiquidation ==
    /\ Len(orders) <= cyc.ord0 + 1
    /\ (/\ pc = "stoploss"
        /\ position # None
        /\ Len(orders) = cyc.ord0 + 1
        /\ orders[Len(orders)].side = "buy")
       => ~StopLossHit(position, data)

\* C28: when fetch_balance, load_markets or the order placement raises during
\* a buy or a sell, position, trade log and orders are exactly as before the
\* attempt and the error reaches the caller: the cycle of a signal-driven
\* trade ends in the handler of run, the stop-loss path records the raise.
C28_OrderFailureAtomicity ==
    [][(pc \in {"gate", "stoploss"} /\ ~cyc.exch_failed /\ cyc'.exch_failed)
        => (/\ UNCHANGED <<position, trade_log, orders>>
            /\ pc = "gate" => pc' = "retry_sleep"
            /\ pc = "stoploss" => cyc'.sl_raised)]_vars

C28_Witness ==
    /\ pc = "retry_sleep"
    /\ cyc.exch_failed
    /\ cyc.balance_calls = 1
    /\ signal.action = "sell"
    /\ position # None
    /\ Len(trade_log) = cyc.log0
    /\ Len(orders) = cyc.ord0

\* the advisory call of the cycle failed or timed out
Outage == advisory.kind \in {"error", "timeout"}

\* C29: in a cycle whose advisory call fails or times out the signal is the
\* fallback hold with confidence 0.3, the risk check is not consulted for it
\* and the gate step places no order; the stop-loss check of that cycle still
\* runs and sends the forced sell of a position whose stop loss is reached,
\* the only order such a cycle can place.
C29_AdvisoryOutageSafe ==
    /\ [](Outage => (/\ signal.action = "hold"
                     /\ signal.confidence = Num(30)
                     /\ cyc.sig_risk = "none"
                     /\ pc \in {"gate", "stoploss", "sleep"}))
    /\ [][(pc = "gate" /\ Outage)
            => (/\ UNCHANGED <<position, orders, trade_log>>
                /\ pc' = "stoploss")]_vars
    /\ [][(/\ pc = "stoploss"
           /\ Outage
           /\ position # None
           /\ data.price * PctScale <= position.stop_loss)
            => cyc'.sl_risk # "none"]_vars
    /\ [][(Outage /\ orders' # orders)
            => (pc = "stoploss" /\ SellPlaced)]_vars

C29_Witness ==
    /\ Outage
    /\ pc = "sleep"
    /\ cyc.sl_due
    /\ cyc.sl_risk = "pass"
    /\ position = None
    /\ Len(orders) = cyc.ord0 + 1

\* the sell orders placed since the cycle began
SellsThisCycle ==
    {i \in (cyc.ord0 + 1)..Len(orders) : orders[i].side = "sell"}

\* C30: within one cycle the signal-driven sell and the forced sell of the
\* stop-loss check never both place an order, whatever the signal, the
\* verdict of the risk check and the outcome of the order placement.
C30_AtMostOneSellPerCycle ==
    Cardinality(SellsThisCycle) <= 1

C30_Witness ==
    /\ pc = "retry_sleep"
    /\ cyc.sl_due
    /\ signal.action = "sell"
    /\ cyc.sig_risk = "pass"
    /\ cyc.sl_risk = "none"
    /\ Cardinality(SellsThisCycle) = 1

====
